---- MODULE Spec2Model ----
(***************************************************************************)
(* Dose scheduling and adherence reconciliation of Go-To-Go-Med            *)
(* (utils/storage.ts): the medications collection, the dose-history        *)
(* ledger, recordDose and syncMissedDoses over an AsyncStorage-like        *)
(* key-value store.                                                         *)
(*                                                                         *)
(* Time.  An instant is a whole number of hours since local midnight of    *)
(* day 0 (the code works in milliseconds; every instant the model uses is  *)
(* on the hour, and there is no daylight-saving shift).  A timestamp       *)
(* string (Date.toISOString) is the pair <<day, hour>>.                    *)
(***************************************************************************)
EXTENDS Integers, Sequences, FiniteSets, Bags, TLC

VARIABLES
  medications,   \* the collection stored under @medications
  doseHistory,   \* the collection stored under @dose_history
  now,           \* the system clock
  nextId,        \* the next fresh entry id (Math.random().toString(36))
  lastDay,       \* the last day the clock reaches in this run
  callsLeft,     \* recordDose calls still allowed in this run
  charges,       \* bag of the natural keys whose recording decremented supply
  last,          \* the last completed call: its arguments and what it saw
  partial,       \* keys recorded as taken whose medications write failed
  registered,    \* the ids of the medications the registry holds or has held
  procs,         \* overlapping calls: where each is and what it holds in memory
  ledgerVersion, \* the number of writes of @dose_history by overlapping calls
  scheduledNotifications,  \* what the scheduler holds, in scheduling order
  probe,         \* the last call of a time or notification function: its
                 \* arguments and what it returned or requested
  authScreen     \* the state of AuthScreen and of its calls in progress

vars == <<medications, doseHistory, now, nextId, lastDay, callsLeft, charges,
          last, partial, registered, procs, ledgerVersion,
          scheduledNotifications, probe, authScreen>>

(***************************************************************************)
(* Bounds                                                                  *)
(***************************************************************************)
MaxDay == 3
MaxRecordCalls == 3
MaxSupply == 2

\* A run has one of two shapes: a long one, days 0..MaxDay with a single
\* recordDose call, or a short one, day 0 only with MaxRecordCalls calls.
RunShapes ==
  {[lastDay |-> MaxDay, calls |-> 1, long |-> TRUE],
   [lastDay |-> 0, calls |-> MaxRecordCalls, long |-> FALSE]}

(***************************************************************************)
(* Dates                                                                   *)
(***************************************************************************)
HoursPerDay == 24

\* A parsed number (Number(s), parseInt(s)): an integer or NaN
Num(n) == [nan |-> FALSE, val |-> n]

NaN == [nan |-> TRUE, val |-> 0]

\* isNaN(x)
IsNaN(x) == x.nan

\* The clock readings of a day the model visits: 09:00, noon, 21:00.
ClockHours == {9, 12, 21}

Instants(days) == {d * HoursPerDay + h : d \in 0..days, h \in ClockHours}

\* new Date(iso).getTime()
GetTime(iso) == iso[1] * HoursPerDay + iso[2]

\* date.toISOString()
ToISOString(t) == <<t \div HoursPerDay, t % HoursPerDay>>

\* new Date(iso).toDateString(): the calendar day of an instant
ToDateString(t) == t \div HoursPerDay

\* date.setHours(h, 0, 0, 0)
SetHours(t, h) == (t \div HoursPerDay) * HoursPerDay + h

\* date.setDate(date.getDate() + d)
AddDays(t, d) == t + d * HoursPerDay

\* time.split(":").map(Number), hour part; the minute part is 0 for every
\* clock string of the model
ClockHour(time) ==
  CASE time = "09:00" -> Num(9)
    [] time = "21:00" -> Num(21)
    [] OTHER -> NaN

\* parseInt(duration.split(" ")[0])
ParseInt(duration) ==
  CASE duration = "7 days" -> Num(7)
    [] duration = "2 days" -> Num(2)
    [] duration = "-1" -> Num(-1)
    [] OTHER -> NaN

(***************************************************************************)
(* The store                                                               *)
(***************************************************************************)
\* The store access of one call that fails (AsyncStorage.getItem or setItem
\* rejects), "none" when every access succeeds.
Faults ==
  {"none", "getDoseHistory", "setDoseHistory", "getMedications",
   "updateMedication.getMedications", "setMedications"}

\* getMedications / getDoseHistory: the parsed collection under the key, and
\* the empty list of the catch branch when the read fails
getMedications(stored, failed) == IF failed THEN <<>> ELSE stored

getDoseHistory(stored, failed) == IF failed THEN <<>> ELSE stored

\* mutant: the write keeps the stored entries the writer did not hold
SetItemMerging(stored, value) ==
  value \o SelectSeq(stored,
                     LAMBDA e : \A i \in 1..Len(value) : value[i].id # e.id)

\* mutant: the write appends the value to what is stored
SetItemAppending(stored, value) == stored \o value

\* AsyncStorage.setItem(key, JSON.stringify(value)): the stored collection
\* afterwards is the value written, whatever was stored
SetItem(stored, value) == value

\* history.sort((a, b) => getTime(a.timestamp) - getTime(b.timestamp)):
\* a stable insertion sort
RECURSIVE InsertSorted(_, _)
InsertSorted(sorted, e) ==
  IF sorted = <<>> THEN <<e>>
  ELSE IF GetTime(sorted[Len(sorted)].timestamp) <= GetTime(e.timestamp)
       THEN Append(sorted, e)
       ELSE Append(InsertSorted(SubSeq(sorted, 1, Len(sorted) - 1), e),
                   sorted[Len(sorted)])

RECURSIVE SortFrom(_, _, _)
SortFrom(history, i, acc) ==
  IF i > Len(history) THEN acc
  ELSE SortFrom(history, i + 1, InsertSorted(acc, history[i]))

\* mutant: the ledger is persisted without the sort
SortOmitted(history) == history

SortByTimestamp(history) == SortFrom(history, 1, <<>>)

(***************************************************************************)
(* Natural key of a ledger entry: (medicationId, scheduledTime, calendar   *)
(* day of the timestamp)                                                   *)
(***************************************************************************)
\* mutant: findIndex compares the timestamps themselves, not their days
MatchesDoseExactStamp(dose, medicationId, scheduledTime, timestamp) ==
  /\ dose.medicationId = medicationId
  /\ dose.scheduledTime = scheduledTime
  /\ dose.timestamp = timestamp

\* mutant: an entry without a scheduled time is never found again
MatchesDoseScheduledOnly(dose, medicationId, scheduledTime, timestamp) ==
  /\ scheduledTime # ""
  /\ dose.medicationId = medicationId
  /\ dose.scheduledTime = scheduledTime
  /\ ToDateString(GetTime(dose.timestamp)) = ToDateString(GetTime(timestamp))

\* the predicate of history.findIndex in recordDose
MatchesDose(dose, medicationId, scheduledTime, timestamp) ==
  /\ dose.medicationId = medicationId
  /\ dose.scheduledTime = scheduledTime
  /\ ToDateString(GetTime(dose.timestamp)) = ToDateString(GetTime(timestamp))

\* history.findIndex(...): the first matching position, 0 when there is none
\* (the code's -1)
FindIndex(history, medicationId, scheduledTime, timestamp) ==
  LET hits == {i \in 1..Len(history) :
                 MatchesDose(history[i], medicationId, scheduledTime, timestamp)}
  IN IF hits = {} THEN 0 ELSE CHOOSE i \in hits : \A j \in hits : i <= j

\* mutant: the trigger fires on every taken recording
DecrementWheneverTaken(history, existingIndex, taken) == taken

\* mutant: the trigger fires whenever the taken flag of the entry changes
DecrementOnChange(history, existingIndex, taken) ==
  IF existingIndex # 0
  THEN taken # history[existingIndex].taken
  ELSE taken

\* mutant: the trigger fires on every call
DecrementAlways(history, existingIndex, taken) == TRUE

\* decrementSupply, as recordDose sets it on both branches
DecrementSupply(history, existingIndex, taken) ==
  IF existingIndex # 0
  THEN taken /\ ~history[existingIndex].taken
  ELSE taken

\* mutant: the entry found is updated and a new entry is pushed as well
UpsertDoseAlsoPushes(history, existingIndex, id, medicationId, scheduledTime, taken, timestamp) ==
  Append(IF existingIndex # 0
         THEN [history EXCEPT ![existingIndex].taken = taken,
                              ![existingIndex].timestamp = timestamp]
         ELSE history,
         [id |-> id,
          medicationId |-> medicationId,
          scheduledTime |-> scheduledTime,
          timestamp |-> timestamp,
          taken |-> taken])

\* the in-memory history of recordDose after the update-or-push
UpsertDose(history, existingIndex, id, medicationId, scheduledTime, taken, timestamp) ==
  IF existingIndex # 0
  THEN [history EXCEPT ![existingIndex].taken = taken,
                       ![existingIndex].timestamp = timestamp]
  ELSE Append(history, [id |-> id,
                        medicationId |-> medicationId,
                        scheduledTime |-> scheduledTime,
                        timestamp |-> timestamp,
                        taken |-> taken])

\* medications.find((med) => med.id === medicationId): position, 0 if none
FindMedication(meds, medicationId) ==
  LET hits == {i \in 1..Len(meds) : meds[i].id = medicationId}
  IN IF hits = {} THEN 0 ELSE CHOOSE i \in hits : \A j \in hits : i <= j

\* mutant: the write takes one unit from the supply stored at the time of
\* the write instead of storing the medication it was given
updateMedicationRelative(meds, updatedMedication) ==
  LET index == FindMedication(meds, updatedMedication.id)
  IN IF index # 0
     THEN [meds EXCEPT ![index].currentSupply = @ - 1]
     ELSE meds

\* mutant: the collection persisted holds the updated medication alone
updateMedicationAlone(meds, updatedMedication) ==
  IF FindMedication(meds, updatedMedication.id) # 0
  THEN <<updatedMedication>>
  ELSE meds

\* updateMedication(updatedMedication): the collection it persists; the
\* collection is written only when the id is found
updateMedication(meds, updatedMedication) ==
  LET index == FindMedication(meds, updatedMedication.id)
  IN IF index # 0 THEN [meds EXCEPT ![index] = updatedMedication] ELSE meds

\* mutant: the supply is decremented without the currentSupply > 0 test
SupplyGuardFoundOnly(meds, medicationId) ==
  FindMedication(meds, medicationId) # 0

\* the guard of the supply update in recordDose
SupplyGuard(meds, medicationId) ==
  LET i == FindMedication(meds, medicationId)
  IN i # 0 /\ meds[i].currentSupply > 0

\* mutant: the supply update does not wait for the ledger write
ReachesUpdateDespiteThrow(ledgerWritten, decrementSupply, found, medicationId) ==
  decrementSupply /\ SupplyGuard(found, medicationId)

\* whether recordDose calls updateMedication: the ledger write did not throw,
\* the trigger fired and the guard holds
ReachesUpdate(ledgerWritten, decrementSupply, found, medicationId) ==
  ledgerWritten /\ decrementSupply /\ SupplyGuard(found, medicationId)

\* mutant: updateMedication writes the collection also when the id is absent
UpdateWritesAlways(meds, updatedMedication) == TRUE

\* if (index !== -1): whether updateMedication reaches its setItem
UpdateWrites(meds, updatedMedication) ==
  FindMedication(meds, updatedMedication.id) # 0

\* the supply update of recordDose: the medications collection afterwards.
\* found is the list recordDose read, meds the list updateMedication read.
UpdateSupply(found, meds, medicationId) ==
  IF SupplyGuard(found, medicationId)
  THEN LET medication == found[FindMedication(found, medicationId)]
       IN updateMedication(meds,
            [medication EXCEPT !.currentSupply = medication.currentSupply - 1])
  ELSE meds

(***************************************************************************)
(* syncMissedDoses                                                         *)
(***************************************************************************)
Min(a, b) == IF a <= b THEN a ELSE b

\* start = new Date(medication.startDate); start.setHours(0, 0, 0, 0)
StartOf(medication) == SetHours(GetTime(medication.startDate), 0)

\* mutant: the day count leaves out the current day
ElapsedDaysWithoutToday(medication, nowv) ==
  (nowv - StartOf(medication)) \div HoursPerDay

\* Math.floor((now - start) / 86400000) + 1
ElapsedDays(medication, nowv) ==
  ((nowv - StartOf(medication)) \div HoursPerDay) + 1

\* mutant: the duration does not cap the day count
TotalDaysUncapped(medication, nowv) == ElapsedDays(medication, nowv)

TotalDays(medication, nowv) ==
  LET durationDays == ParseInt(medication.duration)
  IN IF IsNaN(durationDays) \/ durationDays.val = -1
     THEN ElapsedDays(medication, nowv)
     ELSE Min(durationDays.val, ElapsedDays(medication, nowv))

\* mutant: the lookup compares the stored timestamp string with the date
\* string of the scheduled instant, which never match
ExistsRawTimestamp(history, medicationId, time, scheduled) ==
  \E i \in 1..Len(history) :
    /\ history[i].medicationId = medicationId
    /\ history[i].scheduledTime = time
    /\ history[i].timestamp = <<ToDateString(scheduled)>>

\* history.find(...) in syncMissedDoses
Exists(history, medicationId, time, scheduled) ==
  \E i \in 1..Len(history) :
    /\ history[i].medicationId = medicationId
    /\ history[i].scheduledTime = time
    /\ ToDateString(GetTime(history[i].timestamp)) = ToDateString(scheduled)

\* mutant: the entry is stamped with the day, not with the scheduled instant
MissedDoseStampedDay(id, medicationId, time, scheduled) ==
  [id |-> id, medicationId |-> medicationId, scheduledTime |-> time,
   timestamp |-> ToISOString(SetHours(scheduled, 0)), taken |-> FALSE]

\* the entry syncMissedDoses pushes for a dose nobody recorded
MissedDose(id, medicationId, time, scheduled) ==
  [id |-> id, medicationId |-> medicationId, scheduledTime |-> time,
   timestamp |-> ToISOString(scheduled), taken |-> FALSE]

\* mutant: a dose that has an entry is marked as missed in that entry
RECURSIVE SyncTimesMarkingMissed(_, _, _, _, _)
SyncTimesMarkingMissed(acc, medication, date, k, nowv) ==
  IF k > Len(medication.times) \/ acc.threw THEN acc
  ELSE LET time == medication.times[k]
           hour == ClockHour(time)
           scheduled == SetHours(date, hour.val)
       IN IF IsNaN(hour)
          THEN [acc EXCEPT !.threw = TRUE]
          ELSE IF scheduled > nowv
          THEN SyncTimesMarkingMissed(acc, medication, date, k + 1, nowv)
          ELSE IF Exists(acc.history, medication.id, time, scheduled)
          THEN SyncTimesMarkingMissed(
                 [acc EXCEPT
                    !.history =
                      [i \in 1..Len(acc.history) |->
                         IF /\ acc.history[i].medicationId = medication.id
                            /\ acc.history[i].scheduledTime = time
                            /\ ToDateString(GetTime(acc.history[i].timestamp))
                                 = ToDateString(scheduled)
                         THEN [acc.history[i] EXCEPT !.taken = FALSE]
                         ELSE acc.history[i]],
                    !.updated = TRUE],
                 medication, date, k + 1, nowv)
          ELSE SyncTimesMarkingMissed(
                 [history |-> Append(acc.history,
                                MissedDose(acc.nextId, medication.id, time,
                                           scheduled)),
                  updated |-> TRUE,
                  nextId |-> acc.nextId + 1,
                  threw |-> FALSE,
                  iterations |-> acc.iterations],
                 medication, date, k + 1, nowv)

\* The inner loop over medication.times for one day.  acc is the in-memory
\* state of the pass: [history, updated, nextId, threw, iterations].  A time
\* whose hour
\* is NaN makes scheduled an Invalid Date: scheduled > now is false, no
\* stored entry has the date string "Invalid Date", and
\* scheduled.toISOString() throws a RangeError, which ends the pass: once
\* threw is set, the remaining iterations leave acc as it is.
RECURSIVE SyncTimes(_, _, _, _, _)
SyncTimes(acc, medication, date, k, nowv) ==
  IF k > Len(medication.times) \/ acc.threw THEN acc
  ELSE LET time == medication.times[k]
           hour == ClockHour(time)
           scheduled == SetHours(date, hour.val)
       IN IF IsNaN(hour)
          THEN [acc EXCEPT !.threw = TRUE]
          ELSE IF scheduled > nowv
          THEN SyncTimes(acc, medication, date, k + 1, nowv)
          ELSE IF Exists(acc.history, medication.id, time, scheduled)
          THEN SyncTimes(acc, medication, date, k + 1, nowv)
          ELSE SyncTimes(
                 [history |-> Append(acc.history,
                                MissedDose(acc.nextId, medication.id, time,
                                           scheduled)),
                  updated |-> TRUE,
                  nextId |-> acc.nextId + 1,
                  threw |-> FALSE,
                  iterations |-> acc.iterations],
                 medication, date, k + 1, nowv)

\* one more entry into the body of the day loop of the medication at hand
Entered(acc) ==
  [acc EXCEPT !.iterations[Len(acc.iterations)] = @ + 1]

\* mutant: an as-needed medication is given one 09:00 dose a day
RECURSIVE SyncDaysAsNeededDaily(_, _, _, _)
SyncDaysAsNeededDaily(acc, medication, d, nowv) ==
  IF acc.threw \/ ~(d < TotalDays(medication, nowv)) THEN acc
  ELSE LET date == AddDays(StartOf(medication), d)
           doses == IF Len(medication.times) = 0
                    THEN [medication EXCEPT !.times = <<"09:00">>]
                    ELSE medication
       IN IF date > nowv THEN Entered(acc)
          ELSE SyncDaysAsNeededDaily(
                 SyncTimes(Entered(acc), doses, date, 1, nowv),
                 medication, d + 1, nowv)

\* mutant: the day loop is bounded by its break alone, not by the elapsed
\* days
RECURSIVE SyncDaysUntilBreak(_, _, _, _)
SyncDaysUntilBreak(acc, medication, d, nowv) ==
  LET durationDays == ParseInt(medication.duration)
      date == AddDays(StartOf(medication), d)
  IN IF \/ acc.threw
        \/ ~IsNaN(durationDays) /\ durationDays.val # -1
           /\ ~(d < durationDays.val)
     THEN acc
     ELSE IF date > nowv THEN Entered(acc)
     ELSE IF Len(medication.times) = 0
     THEN SyncDaysUntilBreak(Entered(acc), medication, d + 1, nowv)
     ELSE SyncDaysUntilBreak(SyncTimes(Entered(acc), medication, date, 1, nowv),
                             medication, d + 1, nowv)

\* The loop over the days d = 0 .. totalDays - 1 of one medication; the last
\* element of acc.iterations counts the entries into the loop body.  After a
\* throw the pass is over: no further iteration is entered.
RECURSIVE SyncDays(_, _, _, _)
SyncDays(acc, medication, d, nowv) ==
  IF acc.threw \/ ~(d < TotalDays(medication, nowv)) THEN acc
  ELSE LET date == AddDays(StartOf(medication), d)
       IN IF date > nowv THEN Entered(acc)
          ELSE IF Len(medication.times) = 0
          THEN SyncDays(Entered(acc), medication, d + 1, nowv)
          ELSE SyncDays(SyncTimes(Entered(acc), medication, date, 1, nowv),
                        medication, d + 1, nowv)

\* The loop over the medications; acc.iterations gets one counter per
\* medication
RECURSIVE SyncMedications(_, _, _, _)
SyncMedications(acc, meds, i, nowv) ==
  IF i > Len(meds) \/ acc.threw THEN acc
  ELSE SyncMedications(
         SyncDays([acc EXCEPT !.iterations = Append(@, 0)], meds[i], 0, nowv),
         meds, i + 1, nowv)

(***************************************************************************)
(* State                                                                   *)
(***************************************************************************)
Med(id, times, startDate, duration, currentSupply) ==
  [id |-> id, times |-> times, startDate |-> startDate,
   duration |-> duration, currentSupply |-> currentSupply]

\* registries of a long run: a twice-daily course started on day 0 at noon,
\* and a second medication that is as-needed, once-daily, or not yet started
LongRegistries ==
  {<<Med("A", <<"09:00", "21:00">>, <<0, 12>>, "7 days", 1),
     Med("B", <<>>, <<1, 9>>, "Ongoing", 1)>>,
   <<Med("A", <<"09:00", "21:00">>, <<0, 12>>, "2 days", 1),
     Med("B", <<"09:00">>, <<1, 9>>, "Ongoing", 1)>>,
   <<Med("A", <<"09:00", "21:00">>, <<0, 12>>, "Ongoing", 1),
     Med("B", <<"09:00">>, <<MaxDay + 1, 9>>, "7 days", 1)>>}

\* registries of a short run: the course with no, or with MaxSupply, units
ShortRegistries ==
  {<<Med("A", <<"09:00", "21:00">>, <<0, 12>>, "7 days", s),
     Med("B", <<>>, <<0, 9>>, "Ongoing", 1)>> : s \in {0, MaxSupply}}

\* the medication id, scheduled times and timestamps a caller passes to
\* recordDose at clock reading nowv (the timestamp is now or 09:00 that day);
\* medication B is the one the caller never records
RecordIds == {"A"}

ScheduledTimes == {"", "09:00"}

RecordStamps(nowv) == {ToISOString(t) : t \in {nowv, SetHours(nowv, 9)}}

NoCall ==
  [medicationId |-> "", scheduledTime |-> "", taken |-> FALSE,
   timestamp |-> <<0, 0>>]

\* currentSupply of the medication with this id, -1 when it is not registered
SupplyOf(meds, medicationId) ==
  IF FindMedication(meds, medicationId) = 0 THEN -1
  ELSE meds[FindMedication(meds, medicationId)].currentSupply

\* no time or notification function has been called
NoProbe == [fn |-> "none"]

\* AuthScreen is not mounted
NoAuthScreen == [screen |-> "none"]

\* no overlapping call is in progress
Idle == [pc |-> "idle"]

Processes == {1, 2}

Ids(meds) == {meds[i].id : i \in 1..Len(meds)}

InitLast ==
  [op |-> "init", at |-> 9,
   call |-> NoCall, existed |-> FALSE, wasTaken |-> FALSE,
   supplyBefore |-> -1, medsBefore |-> medications,
   lenBefore |-> 0, idBefore |-> 1,
   ledgerWrites |-> 0, medWrites |-> 0,
   iterations |-> <<>>,
   fault |-> "none", raised |-> FALSE]

Init ==
  /\ \E shape \in RunShapes :
       /\ lastDay = shape.lastDay
       /\ callsLeft = shape.calls
       /\ medications \in IF shape.long THEN LongRegistries ELSE ShortRegistries
  /\ doseHistory = <<>>
  /\ now = 9
  /\ nextId = 1
  /\ charges = EmptyBag
  /\ last = InitLast
  /\ partial = {}
  /\ registered = Ids(medications)
  /\ procs = [p \in Processes |-> Idle]
  /\ ledgerVersion = 0
  /\ scheduledNotifications = <<>>
  /\ probe = NoProbe
  /\ authScreen = NoAuthScreen

\* the system clock moves forward to the next reading
Tick ==
  /\ \E t \in Instants(lastDay) :
       /\ t > now
       /\ \A u \in Instants(lastDay) : u > now => t <= u
       /\ now' = t
  /\ UNCHANGED <<authScreen, medications, doseHistory, nextId, lastDay, callsLeft, charges,
                 last, partial, registered, scheduledNotifications, probe, procs, ledgerVersion>>

\* One call of recordDose, run to completion; fault names the store access
\* that fails during the call.
recordDose(medicationId, scheduledTime, taken, timestamp, fault) ==
  LET history == getDoseHistory(doseHistory, fault = "getDoseHistory")
      existingIndex == FindIndex(history, medicationId, scheduledTime, timestamp)
      decrementSupply == DecrementSupply(history, existingIndex, taken)
      upserted == UpsertDose(history, existingIndex, nextId, medicationId,
                             scheduledTime, taken, timestamp)
      \* await AsyncStorage.setItem(DOSE_HISTORY_KEY, ...)
      ledgerWritten == fault # "setDoseHistory"
      \* const medications = await getMedications(), in recordDose
      found == getMedications(medications, fault = "getMedications")
      \* const medications = await getMedications(), in updateMedication
      meds == getMedications(medications,
                             fault = "updateMedication.getMedications")
      \* updateMedication is called, and it reaches its setItem
      updating == ReachesUpdate(ledgerWritten, decrementSupply, found,
                                medicationId)
      setting == /\ updating
                 /\ UpdateWrites(meds, found[FindMedication(found, medicationId)])
      written == setting /\ fault # "setMedications"
      raised == ~ledgerWritten \/ (setting /\ ~written)
      key == <<medicationId, scheduledTime, ToDateString(GetTime(timestamp))>>
  IN /\ callsLeft > 0
     /\ callsLeft' = callsLeft - 1
     /\ doseHistory' = IF ledgerWritten
                       THEN SetItem(doseHistory, SortByTimestamp(upserted))
                       ELSE doseHistory
     /\ nextId' = IF existingIndex # 0 THEN nextId ELSE nextId + 1
     /\ medications' = IF written
                       THEN SetItem(medications,
                                    UpdateSupply(found, meds, medicationId))
                       ELSE medications
     /\ charges' = IF written THEN charges (+) SetToBag({key}) ELSE charges
     /\ partial' = IF ledgerWritten /\ taken /\ setting /\ ~written
                   THEN partial \cup {key} ELSE partial
     /\ last' = [op |-> "recordDose", at |-> now,
                 call |-> [medicationId |-> medicationId,
                           scheduledTime |-> scheduledTime,
                           taken |-> taken, timestamp |-> timestamp],
                 existed |-> existingIndex # 0,
                 wasTaken |-> existingIndex # 0 /\ history[existingIndex].taken,
                 supplyBefore |-> SupplyOf(medications, medicationId),
                 medsBefore |-> medications,
                 lenBefore |-> Len(history), idBefore |-> nextId,
                 ledgerWrites |-> 1,
                 medWrites |-> IF setting THEN 1 ELSE 0,
                 iterations |-> <<>>,
                 fault |-> fault, raised |-> raised]
     /\ UNCHANGED <<authScreen, now, lastDay, registered, scheduledNotifications, probe, procs, ledgerVersion>>

RecordDose ==
  \E medicationId \in RecordIds, scheduledTime \in ScheduledTimes,
     taken \in BOOLEAN, timestamp \in RecordStamps(now) :
       recordDose(medicationId, scheduledTime, taken, timestamp, "none")

\* One pass of syncMissedDoses, run to completion; fault names the store
\* access that fails during the pass.  A pass with a failure counts as one of
\* the calls of the run; the ids drawn for entries that are never persisted
\* are not used up.
SyncMissedDoses(fault) ==
  \E acc \in {SyncMedications(
                [history |-> getDoseHistory(doseHistory, fault = "getDoseHistory"),
                 updated |-> FALSE, nextId |-> nextId, threw |-> FALSE,
                 iterations |-> <<>>],
                getMedications(medications, fault = "getMedications"), 1, now)} :
    \E setting \in {~acc.threw /\ acc.updated} :
      \E written \in {setting /\ fault # "setDoseHistory"} :
        /\ fault # "none" => callsLeft > 0
        /\ callsLeft' = IF fault = "none" THEN callsLeft ELSE callsLeft - 1
        /\ doseHistory' = IF written
                          THEN SetItem(doseHistory, SortByTimestamp(acc.history))
                          ELSE doseHistory
        /\ nextId' = IF written THEN acc.nextId ELSE nextId
        /\ last' = [op |-> "syncMissedDoses", at |-> now,
                    call |-> NoCall, existed |-> FALSE, wasTaken |-> FALSE,
                    supplyBefore |-> -1, medsBefore |-> medications,
                    lenBefore |-> Len(doseHistory), idBefore |-> nextId,
                    ledgerWrites |-> IF setting THEN 1 ELSE 0,
                    medWrites |-> 0,
                    fault |-> fault,
                    iterations |-> acc.iterations,
                    raised |-> acc.threw \/ (setting /\ ~written)]
        /\ UNCHANGED <<authScreen, medications, now, lastDay, charges, partial,
                       registered, scheduledNotifications, probe, procs, ledgerVersion>>

syncMissedDoses == SyncMissedDoses("none")

Next == Tick \/ RecordDose \/ syncMissedDoses

Spec == Init /\ [][Next]_vars

(***************************************************************************)
(* Store failures and callers' mistakes: any one store access of a call    *)
(* may fail, recordDose and updateMedication may be given an id the        *)
(* registry never held, and a medication may carry a time string that is   *)
(* not a clock time.                                                       *)
(***************************************************************************)
\* registries of a run with failures: the course with MaxSupply units, or a
\* course whose first time string is not a clock time next to a once-daily
\* medication
FaultyRegistries ==
  {<<Med("A", <<"09:00", "21:00">>, <<0, 12>>, "7 days", MaxSupply),
     Med("B", <<>>, <<0, 9>>, "Ongoing", 1)>>,
   <<Med("A", <<"9am", "21:00">>, <<0, 12>>, "7 days", 1),
     Med("B", <<"09:00">>, <<0, 9>>, "Ongoing", 1)>>}

\* the ids a caller passes: a registered one, and one never registered
AnyIds == {"A", "Z"}

\* a run with failures stays on day 0 and makes two calls (a pass of
\* syncMissedDoses without a failure is not counted)
FaultyRun == [lastDay |-> 0, calls |-> 2]

InitFaults ==
  /\ lastDay = FaultyRun.lastDay
  /\ callsLeft = FaultyRun.calls
  /\ medications \in FaultyRegistries
  /\ doseHistory = <<>>
  /\ now = 9
  /\ nextId = 1
  /\ charges = EmptyBag
  /\ last = InitLast
  /\ partial = {}
  /\ registered = Ids(medications)
  /\ procs = [p \in Processes |-> Idle]
  /\ ledgerVersion = 0
  /\ scheduledNotifications = <<>>
  /\ probe = NoProbe
  /\ authScreen = NoAuthScreen

RecordDoseFaulty ==
  \E medicationId \in AnyIds, scheduledTime \in ScheduledTimes,
     taken \in BOOLEAN, timestamp \in RecordStamps(now), fault \in Faults :
       recordDose(medicationId, scheduledTime, taken, timestamp, fault)

SyncFaulty ==
  \E fault \in {"none", "getDoseHistory", "getMedications", "setDoseHistory"} :
    SyncMissedDoses(fault)

\* One call of updateMedication by a screen, run to completion
UpdateMedication(updatedMedication, fault) ==
  LET meds == getMedications(medications,
                             fault = "updateMedication.getMedications")
      setting == UpdateWrites(meds, updatedMedication)
      written == setting /\ fault # "setMedications"
  IN /\ callsLeft > 0
     /\ callsLeft' = callsLeft - 1
     /\ medications' = IF written
                       THEN SetItem(medications,
                                    updateMedication(meds, updatedMedication))
                       ELSE medications
     /\ last' = [op |-> "updateMedication", at |-> now,
                 call |-> [NoCall EXCEPT !.medicationId = updatedMedication.id],
                 existed |-> FALSE, wasTaken |-> FALSE,
                 supplyBefore |-> SupplyOf(medications, updatedMedication.id),
                 medsBefore |-> medications,
                 lenBefore |-> Len(doseHistory), idBefore |-> nextId,
                 ledgerWrites |-> 0,
                 medWrites |-> IF setting THEN 1 ELSE 0,
                 iterations |-> <<>>,
                 fault |-> fault, raised |-> setting /\ ~written]
     /\ UNCHANGED <<authScreen, doseHistory, now, nextId, lastDay, charges, partial,
                    registered, scheduledNotifications, probe, procs, ledgerVersion>>

\* the medications a screen passes to updateMedication: a registered one
\* refilled to MaxSupply, and one the registry never held
UpdateMedicationFaulty ==
  \E updatedMedication \in
       {[medications[i] EXCEPT !.currentSupply = MaxSupply] :
          i \in 1..Len(medications)}
       \cup {Med("Z", <<"09:00">>, <<0, 9>>, "7 days", 1)},
     fault \in {"none", "updateMedication.getMedications", "setMedications"} :
       UpdateMedication(updatedMedication, fault)

NextFaults == Tick \/ RecordDoseFaulty \/ SyncFaulty \/ UpdateMedicationFaulty

SpecFaults == InitFaults /\ [][NextFaults]_vars

(***************************************************************************)
(* Deleting a medication.  Calls run to completion and no store access     *)
(* fails; the clock moves on between the calls.                            *)
(***************************************************************************)
\* mutant: the filter keeps the medication with the id and drops the others
deleteMedicationInverted(meds, id) ==
  SelectSeq(meds, LAMBDA med : med.id = id)

\* medications.filter((med) => med.id !== id): the collection
\* deleteMedication persists
deleteMedication(meds, id) ==
  SelectSeq(meds, LAMBDA med : med.id # id)

\* a run with deletions: days 0 .. lastDay, one recordDose call
DeleteRun == [lastDay |-> 1, calls |-> 1]

\* the twice-daily course and a once-daily ongoing medication, both started
\* on day 0
DeleteRegistries ==
  {<<Med("A", <<"09:00", "21:00">>, <<0, 9>>, "7 days", 1),
     Med("B", <<"09:00">>, <<0, 9>>, "Ongoing", 1)>>}

InitDelete ==
  /\ lastDay = DeleteRun.lastDay
  /\ callsLeft = DeleteRun.calls
  /\ medications \in DeleteRegistries
  /\ doseHistory = <<>>
  /\ now = 9
  /\ nextId = 1
  /\ charges = EmptyBag
  /\ last = InitLast
  /\ partial = {}
  /\ registered = Ids(medications)
  /\ procs = [p \in Processes |-> Idle]
  /\ ledgerVersion = 0
  /\ scheduledNotifications = <<>>
  /\ probe = NoProbe
  /\ authScreen = NoAuthScreen

\* One call of deleteMedication(id), run to completion: lines 110-122
DeleteMedication(id) ==
  LET meds == getMedications(medications, FALSE)
  IN /\ medications' = SetItem(medications, deleteMedication(meds, id))
     /\ last' = [op |-> "deleteMedication", at |-> now,
                 call |-> [NoCall EXCEPT !.medicationId = id],
                 existed |-> FALSE, wasTaken |-> FALSE,
                 supplyBefore |-> SupplyOf(medications, id),
                 medsBefore |-> medications,
                 lenBefore |-> Len(doseHistory), idBefore |-> nextId,
                 ledgerWrites |-> 0, medWrites |-> 1,
                 iterations |-> <<>>,
                 fault |-> "none", raised |-> FALSE]
     /\ UNCHANGED <<authScreen, doseHistory, now, nextId, lastDay, callsLeft, charges,
                    partial, registered, scheduledNotifications, probe, procs,
                    ledgerVersion>>

\* the ids a screen passes to deleteMedication
DeleteMedicationAny == \E id \in {"A", "B"} : DeleteMedication(id)

NextDelete == Tick \/ RecordDose \/ syncMissedDoses \/ DeleteMedicationAny

SpecDelete == InitDelete /\ [][NextDelete]_vars

(***************************************************************************)
(* Overlapping calls.  A call runs from one await to the next without      *)
(* interruption; between its store accesses the steps of another call may  *)
(* run.  There is no failure here.                                         *)
(***************************************************************************)
\* a run with overlapping calls: the clock stays at noon of day 0, and three
\* calls are made
RaceRun == [now |-> 12, calls |-> 3]

RaceRegistries ==
  {<<Med("A", <<"09:00", "21:00">>, <<0, 9>>, "7 days", MaxSupply),
     Med("B", <<>>, <<0, 9>>, "Ongoing", 1)>>}

NoMedication == Med("", <<>>, <<0, 0>>, "", 0)

\* A call in progress or finished: the await it stands at (pc), its
\* arguments, its in-memory history and the entries it pushed, the ledger
\* version it read and the one it wrote (0: none), and the locals of the
\* supply update.
Proc(pc, op, call, history, pushed, loaded, wrote, decrementSupply) ==
  [pc |-> pc, op |-> op, call |-> call, history |-> history,
   pushed |-> pushed, loaded |-> loaded, wrote |-> wrote,
   decrementSupply |-> decrementSupply,
   medication |-> NoMedication, meds |-> <<>>]

InitRace ==
  /\ lastDay = 0
  /\ callsLeft = RaceRun.calls
  /\ medications \in RaceRegistries
  /\ doseHistory = <<>>
  /\ now = RaceRun.now
  /\ nextId = 1
  /\ charges = EmptyBag
  /\ last = InitLast
  /\ partial = {}
  /\ registered = Ids(medications)
  /\ procs = [p \in Processes |-> Idle]
  /\ ledgerVersion = 0
  /\ scheduledNotifications = <<>>
  /\ probe = NoProbe
  /\ authScreen = NoAuthScreen

\* the entries a call pushed: those with the ids it drew
Pushed(history, from) ==
  {history[i] : i \in {j \in 1..Len(history) : history[j].id >= from}}

\* recordDose from the call to its await of the ledger write: lines 153-186
LoadRecordDose(p, medicationId, scheduledTime, taken, timestamp) ==
  LET history == getDoseHistory(doseHistory, FALSE)
      existingIndex == FindIndex(history, medicationId, scheduledTime, timestamp)
      upserted == UpsertDose(history, existingIndex, nextId, medicationId,
                             scheduledTime, taken, timestamp)
  IN /\ procs[p].pc \in {"idle", "done"}
     /\ callsLeft > 0
     /\ callsLeft' = callsLeft - 1
     /\ nextId' = IF existingIndex # 0 THEN nextId ELSE nextId + 1
     /\ procs' = [procs EXCEPT ![p] =
          Proc("setDoseHistory", "recordDose",
               [medicationId |-> medicationId, scheduledTime |-> scheduledTime,
                taken |-> taken, timestamp |-> timestamp],
               SortByTimestamp(upserted), Pushed(upserted, nextId),
               ledgerVersion, 0,
               DecrementSupply(history, existingIndex, taken))]
     /\ UNCHANGED <<authScreen, medications, doseHistory, now, lastDay, charges, last,
                    partial, registered, scheduledNotifications, probe, ledgerVersion>>

\* syncMissedDoses from the call to its await of the ledger write, or to its
\* end when nothing is missing: lines 218-280
LoadSync(p) ==
  LET acc == SyncMedications(
               [history |-> getDoseHistory(doseHistory, FALSE),
                updated |-> FALSE, nextId |-> nextId, threw |-> FALSE,
                 iterations |-> <<>>],
               getMedications(medications, FALSE), 1, now)
  IN /\ procs[p].pc \in {"idle", "done"}
     /\ callsLeft > 0
     /\ callsLeft' = callsLeft - 1
     /\ nextId' = acc.nextId
     /\ procs' = [procs EXCEPT ![p] =
          Proc(IF acc.updated THEN "setDoseHistory" ELSE "done",
               "syncMissedDoses", NoCall,
               SortByTimestamp(acc.history), Pushed(acc.history, nextId),
               ledgerVersion, 0, FALSE)]
     /\ UNCHANGED <<authScreen, medications, doseHistory, now, lastDay, charges, last,
                    partial, registered, scheduledNotifications, probe, ledgerVersion>>

\* the ledger write lands: line 186 or line 280
SetDoseHistory(p) ==
  /\ procs[p].pc = "setDoseHistory"
  /\ doseHistory' = SetItem(doseHistory, procs[p].history)
  /\ ledgerVersion' = ledgerVersion + 1
  /\ procs' = [procs EXCEPT
       ![p].pc = IF procs[p].decrementSupply THEN "getMedications" ELSE "done",
       ![p].wrote = ledgerVersion + 1]
  /\ UNCHANGED <<authScreen, medications, now, nextId, lastDay, callsLeft, charges, last,
                 partial, registered, scheduledNotifications, probe>>

\* the read of the medications in recordDose and the guard: lines 190-193
GetMedications(p) ==
  LET found == getMedications(medications, FALSE)
      id == procs[p].call.medicationId
      medication == found[FindMedication(found, id)]
  IN /\ procs[p].pc = "getMedications"
     /\ procs' = IF SupplyGuard(found, id)
                 THEN [procs EXCEPT
                         ![p].pc = "updateMedication",
                         ![p].medication =
                           [medication EXCEPT
                              !.currentSupply = medication.currentSupply - 1]]
                 ELSE [procs EXCEPT ![p].pc = "done"]
     /\ UNCHANGED <<authScreen, medications, doseHistory, now, nextId, lastDay, callsLeft,
                    charges, last, partial, registered, scheduledNotifications, probe, ledgerVersion>>

\* the read of the medications in updateMedication and its guard: lines 96-101
UpdateGetMedications(p) ==
  LET meds == getMedications(medications, FALSE)
  IN /\ procs[p].pc = "updateMedication"
     /\ procs' = IF UpdateWrites(meds, procs[p].medication)
                 THEN [procs EXCEPT
                         ![p].pc = "setMedications",
                         ![p].meds = updateMedication(meds, procs[p].medication)]
                 ELSE [procs EXCEPT ![p].pc = "done"]
     /\ UNCHANGED <<authScreen, medications, doseHistory, now, nextId, lastDay, callsLeft,
                    charges, last, partial, registered, scheduledNotifications, probe, ledgerVersion>>

\* the medications write lands: line 102 (updateMedication) or lines 114-117
\* (deleteMedication)
SetMedications(p) ==
  /\ procs[p].pc = "setMedications"
  /\ medications' = SetItem(medications, procs[p].meds)
  /\ procs' = [procs EXCEPT ![p].pc = "done"]
  /\ UNCHANGED <<authScreen, doseHistory, now, nextId, lastDay, callsLeft, charges, last,
                 partial, registered, scheduledNotifications, probe, ledgerVersion>>

LoadRecordDoseRace ==
  \E p \in Processes, medicationId \in RecordIds,
     scheduledTime \in ScheduledTimes, taken \in BOOLEAN,
     timestamp \in RecordStamps(now) :
       LoadRecordDose(p, medicationId, scheduledTime, taken, timestamp)

LoadSyncRace == \E p \in Processes : LoadSync(p)

SetDoseHistoryRace == \E p \in Processes : SetDoseHistory(p)

GetMedicationsRace == \E p \in Processes : GetMedications(p)

UpdateGetMedicationsRace == \E p \in Processes : UpdateGetMedications(p)

SetMedicationsRace == \E p \in Processes : SetMedications(p)

NextRace ==
  \/ LoadRecordDoseRace
  \/ LoadSyncRace
  \/ SetDoseHistoryRace
  \/ GetMedicationsRace
  \/ UpdateGetMedicationsRace
  \/ SetMedicationsRace

SpecRace == InitRace /\ [][NextRace]_vars

(***************************************************************************)
(* Overlapping calls with a deletion: the steps of recordDose and of       *)
(* deleteMedication, each from one await to the next.                      *)
(***************************************************************************)
\* deleteMedication from the call to its await of the write: lines 112-117
LoadDelete(p, id) ==
  LET meds == getMedications(medications, FALSE)
  IN /\ procs[p].pc \in {"idle", "done"}
     /\ callsLeft > 0
     /\ callsLeft' = callsLeft - 1
     /\ procs' = [procs EXCEPT ![p] =
          [Proc("setMedications", "deleteMedication",
                [NoCall EXCEPT !.medicationId = id],
                <<>>, {}, ledgerVersion, 0, FALSE)
             EXCEPT !.meds = deleteMedication(meds, id)]]
     /\ UNCHANGED <<authScreen, medications, doseHistory, now, nextId, lastDay, charges,
                    last, partial, registered, scheduledNotifications, probe,
                    ledgerVersion>>

LoadDeleteRace == \E p \in Processes, id \in RecordIds : LoadDelete(p, id)

NextRaceDelete ==
  \/ LoadRecordDoseRace
  \/ SetDoseHistoryRace
  \/ GetMedicationsRace
  \/ UpdateGetMedicationsRace
  \/ SetMedicationsRace
  \/ LoadDeleteRace

SpecRaceDelete == InitRace /\ [][NextRaceDelete]_vars

(***************************************************************************)
(* utils/time.ts: isMedicationDue and isMedicationActiveOnDate, called     *)
(* with any medication and date at any clock reading.                      *)
(***************************************************************************)
\* new Date(date.getFullYear(), date.getMonth(), date.getDate())
DatePortion(t) == SetHours(t, 0)

\* mutant: a future date falls through to the other tests
isMedicationDueWithoutFutureTest(medication, date, nowv) ==
  LET selectedDate == DatePortion(date)
      today == DatePortion(nowv)
  IN IF Len(medication.times) = 0 \/ selectedDate < today THEN TRUE
     ELSE \E k \in 1..Len(medication.times) :
            LET h == ClockHour(medication.times[k])
            IN ~IsNaN(h) /\ nowv >= SetHours(selectedDate, h.val)

\* mutant: a time is due only once it has passed (now > due)
isMedicationDueStrictlyAfter(medication, date, nowv) ==
  LET selectedDate == DatePortion(date)
      today == DatePortion(nowv)
  IN IF selectedDate > today THEN FALSE
     ELSE IF Len(medication.times) = 0 \/ selectedDate < today THEN TRUE
     ELSE \E k \in 1..Len(medication.times) :
            LET h == ClockHour(medication.times[k])
            IN ~IsNaN(h) /\ nowv > SetHours(selectedDate, h.val)

\* isMedicationDue(medication, date) at clock reading nowv.  A time whose
\* hour is NaN makes due an Invalid Date, and now >= due is false.
isMedicationDue(medication, date, nowv) ==
  LET selectedDate == DatePortion(date)
      today == DatePortion(nowv)
  IN IF selectedDate > today THEN FALSE
     ELSE IF Len(medication.times) = 0 \/ selectedDate < today THEN TRUE
     ELSE \E k \in 1..Len(medication.times) :
            LET h == ClockHour(medication.times[k])
            IN ~IsNaN(h) /\ nowv >= SetHours(selectedDate, h.val)

\* mutant: the start keeps its time of day
isMedicationActiveOnDateRawStart(medication, date) ==
  LET start == GetTime(medication.startDate)
      check == DatePortion(date)
      durationDays == ParseInt(medication.duration)
  IN IF IsNaN(durationDays) \/ durationDays.val = -1
     THEN check >= start
     ELSE check >= start /\ check <= AddDays(start, durationDays.val - 1)

\* mutant: the last day of the course is not part of the window
isMedicationActiveOnDateExclusiveEnd(medication, date) ==
  LET start == SetHours(GetTime(medication.startDate), 0)
      check == DatePortion(date)
      durationDays == ParseInt(medication.duration)
  IN IF IsNaN(durationDays) \/ durationDays.val = -1
     THEN check >= start
     ELSE check >= start /\ check < AddDays(start, durationDays.val - 1)

\* isMedicationActiveOnDate(medication, date)
isMedicationActiveOnDate(medication, date) ==
  LET start == SetHours(GetTime(medication.startDate), 0)
      check == DatePortion(date)
      durationDays == ParseInt(medication.duration)
  IN IF IsNaN(durationDays) \/ durationDays.val = -1
     THEN check >= start
     ELSE check >= start /\ check <= AddDays(start, durationDays.val - 1)

\* The medications, dates and clock readings the two functions are called
\* with (the functions keep no state: a run makes one call): as-needed, once and twice daily and a string that is no clock time;
\* starts at midnight and noon; numbered and ongoing durations
TimeMedications ==
  {Med("A", times, <<d, h>>, duration, 1) :
     times \in {<<>>, <<"09:00">>, <<"09:00", "21:00">>, <<"9am">>},
     d \in 0..MaxDay, h \in {0, 12},
     duration \in {"2 days", "7 days", "Ongoing", "-1"}}

TimeDates == {d * HoursPerDay + h : d \in 0..(MaxDay + 1), h \in {0, 21}}

TimeNows == {d * HoursPerDay + h : d \in 1..MaxDay, h \in {8, 9, 12}}

InitTime ==
  /\ lastDay = MaxDay
  /\ callsLeft = 0
  /\ medications = <<>>
  /\ doseHistory = <<>>
  /\ now \in TimeNows
  /\ nextId = 1
  /\ charges = EmptyBag
  /\ last = InitLast
  /\ partial = {}
  /\ registered = {}
  /\ procs = [p \in Processes |-> Idle]
  /\ ledgerVersion = 0
  /\ scheduledNotifications = <<>>
  /\ probe = NoProbe
  /\ authScreen = NoAuthScreen

IsMedicationDue ==
  /\ probe = NoProbe
  /\ \E medication \in TimeMedications, date \in TimeDates :
       probe' = [fn |-> "isMedicationDue", medication |-> medication,
                 date |-> date, at |-> now,
                 result |-> isMedicationDue(medication, date, now)]
  /\ UNCHANGED <<authScreen, medications, doseHistory, now, nextId, lastDay, callsLeft,
                 charges, last, partial, registered, procs, ledgerVersion,
                 scheduledNotifications>>

IsMedicationActiveOnDate ==
  /\ probe = NoProbe
  /\ \E medication \in TimeMedications, date \in TimeDates :
       probe' = [fn |-> "isMedicationActiveOnDate", medication |-> medication,
                 date |-> date, at |-> now,
                 result |-> isMedicationActiveOnDate(medication, date)]
  /\ UNCHANGED <<authScreen, medications, doseHistory, now, nextId, lastDay, callsLeft,
                 charges, last, partial, registered, procs, ledgerVersion,
                 scheduledNotifications>>

NextTime == IsMedicationDue \/ IsMedicationActiveOnDate

SpecTime == InitTime /\ [][NextTime]_vars

(***************************************************************************)
(* utils/notifications.ts over the notification scheduler.  failAt is the  *)
(* number of the scheduler call of one function call that rejects, 0 when  *)
(* none does.                                                              *)
(***************************************************************************)
\* the fields of a Medication the notification functions read
ReminderMed(id, times, reminderEnabled, refillReminder, currentSupply, refillAt) ==
  [id |-> id, times |-> times, reminderEnabled |-> reminderEnabled,
   refillReminder |-> refillReminder, currentSupply |-> currentSupply,
   refillAt |-> refillAt]

\* the identifier the scheduler gives the next notification
NextIdentifier(list) ==
  IF list = <<>> THEN 1
  ELSE 1 + (CHOOSE n \in {list[i].identifier : i \in 1..Len(list)} :
              \A i \in 1..Len(list) : list[i].identifier <= n)

\* the request of scheduleMedicationReminder for one time: lines 354-369
ReminderRequest(medication, time) ==
  [medicationId |-> medication.id, type |-> "medication",
   hour |-> ClockHour(time).val, repeats |-> TRUE]

\* the requests of one scheduleMedicationReminder call that the scheduler
\* receives: one per time, up to and including the one that rejects
ReminderRequests(medication, failAt) ==
  IF ~medication.reminderEnabled THEN <<>>
  ELSE [k \in 1..(IF failAt \in 1..Len(medication.times)
                  THEN failAt ELSE Len(medication.times)) |->
          ReminderRequest(medication, medication.times[k])]

\* Notifications.scheduleNotificationAsync with a calendar trigger, for the
\* first n requests: the scheduler's list afterwards
RECURSIVE ScheduleAll(_, _, _)
ScheduleAll(list, requests, n) ==
  IF n = 0 THEN list
  ELSE LET sofar == ScheduleAll(list, requests, n - 1)
       IN Append(sofar, [identifier |-> NextIdentifier(sofar),
                         medicationId |-> requests[n].medicationId,
                         type |-> requests[n].type,
                         hour |-> requests[n].hour,
                         repeats |-> requests[n].repeats])

\* mutant: the reminders are scheduled whether or not they are enabled
scheduleMedicationReminderAlways(list, medication, failAt) ==
  LET requests == ReminderRequests([medication EXCEPT !.reminderEnabled = TRUE],
                                   failAt)
  IN ScheduleAll(list, requests,
                 IF failAt \in 1..Len(requests) THEN failAt - 1 ELSE Len(requests))

\* scheduleMedicationReminder(medication): the scheduler's list afterwards;
\* the requests before the one that rejects stay scheduled
scheduleMedicationReminder(list, medication, failAt) ==
  LET requests == ReminderRequests(medication, failAt)
  IN ScheduleAll(list, requests,
                 IF failAt \in 1..Len(requests) THEN failAt - 1 ELSE Len(requests))

\* mutant: the alert is issued only below the threshold
scheduleRefillReminderBelow(medication) ==
  IF medication.refillReminder /\ medication.currentSupply < medication.refillAt
  THEN <<[medicationId |-> medication.id, type |-> "refill",
          trigger |-> "null"]>>
  ELSE <<>>

\* scheduleRefillReminder(medication): the requests it makes, at most one,
\* with trigger null (show immediately)
scheduleRefillReminder(medication) ==
  IF medication.refillReminder /\ medication.currentSupply <= medication.refillAt
  THEN <<[medicationId |-> medication.id, type |-> "refill",
          trigger |-> "null"]>>
  ELSE <<>>

\* the positions of the notifications tagged with the medication id
Tagged(list, medicationId) ==
  {i \in 1..Len(list) : list[i].medicationId = medicationId}

\* the list without the positions in gone
RECURSIVE Without(_, _, _)
Without(list, gone, i) ==
  IF i > Len(list) THEN <<>>
  ELSE IF i \in gone THEN Without(list, gone, i + 1)
  ELSE <<list[i]>> \o Without(list, gone, i + 1)

\* mutant: every scheduled notification is cancelled
cancelMedicationRemindersAll(list, medicationId, failAt) == <<>>

\* cancelMedicationReminders(medicationId): the scheduler's list afterwards.
\* Call 1 is getAllScheduledNotificationsAsync, call j + 1 the cancellation
\* of the j-th tagged notification; the catch ends the loop at a rejection.
cancelMedicationReminders(list, medicationId, failAt) ==
  LET tagged == Tagged(list, medicationId)
      cancelled == {i \in tagged :
                      failAt = 0 \/
                      Cardinality({j \in tagged : j <= i}) + 1 < failAt}
  IN IF failAt = 1 THEN list ELSE Without(list, cancelled, 1)

\* The medications the notification functions are called with: a twice-daily
\* one with every setting of the two switches and every supply up to
\* MaxSupply against a threshold of 1, and a second one, once daily or
\* as-needed.
ReminderMedications ==
  {ReminderMed("A", <<"09:00", "21:00">>, enabled, refill, supply, 1) :
     enabled \in BOOLEAN, refill \in BOOLEAN, supply \in 0..MaxSupply}
  \cup {ReminderMed("B", times, TRUE, FALSE, 1, 1) :
          times \in {<<>>, <<"09:00">>}}

\* a run of the notification functions makes three calls
ReminderRun == [calls |-> 3]

InitReminders ==
  /\ lastDay = 0
  /\ callsLeft = ReminderRun.calls
  /\ medications = <<>>
  /\ doseHistory = <<>>
  /\ now = 9
  /\ nextId = 1
  /\ charges = EmptyBag
  /\ last = InitLast
  /\ partial = {}
  /\ registered = {}
  /\ procs = [p \in Processes |-> Idle]
  /\ ledgerVersion = 0
  /\ scheduledNotifications = <<>>
  /\ probe = NoProbe
  /\ authScreen = NoAuthScreen

ScheduleMedicationReminder ==
  /\ callsLeft > 0
  /\ callsLeft' = callsLeft - 1
  /\ \E medication \in ReminderMedications :
       \E failAt \in 0..Len(medication.times) :
         /\ scheduledNotifications'
              = scheduleMedicationReminder(scheduledNotifications, medication,
                                           failAt)
         /\ probe' = [fn |-> "scheduleMedicationReminder",
                      medication |-> medication, failAt |-> failAt,
                      before |-> scheduledNotifications,
                      requests |-> ReminderRequests(medication, failAt),
                      returned |-> IF medication.reminderEnabled /\ failAt = 0
                                   THEN "identifiers" ELSE "undefined"]
  /\ UNCHANGED <<authScreen, medications, doseHistory, now, nextId, lastDay, charges, last,
                 partial, registered, procs, ledgerVersion>>

ScheduleRefillReminder ==
  /\ callsLeft > 0
  /\ callsLeft' = callsLeft - 1
  /\ \E medication \in ReminderMedications :
       \E failAt \in 0..Len(scheduleRefillReminder(medication)) :
         probe' = [fn |-> "scheduleRefillReminder",
                   medication |-> medication, failAt |-> failAt,
                   before |-> scheduledNotifications,
                   requests |-> scheduleRefillReminder(medication),
                   returned |-> IF scheduleRefillReminder(medication) # <<>>
                                   /\ failAt = 0
                                THEN "identifier" ELSE "undefined"]
  /\ UNCHANGED <<authScreen, medications, doseHistory, now, nextId, lastDay, charges, last,
                 partial, registered, procs, ledgerVersion,
                 scheduledNotifications>>

CancelMedicationReminders ==
  /\ callsLeft > 0
  /\ callsLeft' = callsLeft - 1
  /\ \E medicationId \in {"A", "B"} :
       \E failAt \in 0..(Cardinality(Tagged(scheduledNotifications,
                                            medicationId)) + 1) :
         /\ scheduledNotifications'
              = cancelMedicationReminders(scheduledNotifications, medicationId,
                                          failAt)
         /\ probe' = [fn |-> "cancelMedicationReminders",
                      medicationId |-> medicationId, failAt |-> failAt,
                      before |-> scheduledNotifications,
                      requests |-> <<>>, returned |-> "undefined"]
  /\ UNCHANGED <<authScreen, medications, doseHistory, now, nextId, lastDay, charges, last,
                 partial, registered, procs, ledgerVersion>>

\* mutant: the new reminders are scheduled without cancelling the old ones
updateMedicationRemindersWithoutCancel(list, medication, cancelFailAt, scheduleFailAt) ==
  scheduleMedicationReminder(list, medication, scheduleFailAt)

\* updateMedicationReminders(medication): the scheduler's list afterwards.
\* Both callees swallow a rejection, so the scheduling runs also after a
\* cancellation that failed; scheduleRefillReminder adds nothing to the list.
updateMedicationReminders(list, medication, cancelFailAt, scheduleFailAt) ==
  scheduleMedicationReminder(
    cancelMedicationReminders(list, medication.id, cancelFailAt),
    medication, scheduleFailAt)

UpdateMedicationReminders ==
  /\ callsLeft > 0
  /\ callsLeft' = callsLeft - 1
  /\ \E medication \in ReminderMedications :
       \E cancelFailAt \in 0..(Cardinality(Tagged(scheduledNotifications,
                                                  medication.id)) + 1),
          scheduleFailAt \in 0..Len(medication.times) :
         /\ cancelFailAt = 0 \/ scheduleFailAt = 0
         /\ scheduledNotifications'
              = updateMedicationReminders(scheduledNotifications, medication,
                                          cancelFailAt, scheduleFailAt)
         /\ probe' = [fn |-> "updateMedicationReminders",
                      medication |-> medication,
                      failAt |-> cancelFailAt + scheduleFailAt,
                      before |-> scheduledNotifications,
                      requests |-> ReminderRequests(medication, scheduleFailAt),
                      returned |-> "undefined"]
  /\ UNCHANGED <<authScreen, medications, doseHistory, now, nextId, lastDay, charges, last,
                 partial, registered, procs, ledgerVersion>>

NextReminders ==
  \/ ScheduleMedicationReminder
  \/ ScheduleRefillReminder
  \/ CancelMedicationReminders
  \/ UpdateMedicationReminders

SpecReminders == InitReminders /\ [][NextReminders]_vars

(***************************************************************************)
(* Clearing all data: clearAllData over the notification scheduler and the *)
(* store.  fault names the call of clearAllData that rejects.              *)
(***************************************************************************)
ClearFaults == {"none", "cancelAllScheduledNotificationsAsync", "multiRemove"}

\* mutant: the collections are removed although the cancellation rejected
ReachesRemoveDespiteThrow(fault) == TRUE

\* whether clearAllData reaches AsyncStorage.multiRemove: the awaited
\* cancellation before it did not reject
ReachesRemove(fault) == fault # "cancelAllScheduledNotificationsAsync"

\* a run with clearing: days 0 .. lastDay, two calls of recordDose or
\* clearAllData
ClearRun == [lastDay |-> 1, calls |-> 2]

\* the twice-daily course, registered with its two reminders scheduled, and
\* a once-daily ongoing medication
InitClear ==
  /\ lastDay = ClearRun.lastDay
  /\ callsLeft = ClearRun.calls
  /\ medications \in DeleteRegistries
  /\ doseHistory = <<>>
  /\ now = 9
  /\ nextId = 1
  /\ charges = EmptyBag
  /\ last = InitLast
  /\ partial = {}
  /\ registered = Ids(medications)
  /\ procs = [p \in Processes |-> Idle]
  /\ ledgerVersion = 0
  /\ scheduledNotifications =
       scheduleMedicationReminder(
         <<>>, ReminderMed("A", <<"09:00", "21:00">>, TRUE, FALSE, 1, 1), 0)
  /\ probe = NoProbe
  /\ authScreen = NoAuthScreen

\* One call of clearAllData, run to completion: lines 203-211.  removed is
\* the set of keys a multiRemove that rejects has removed all the same, any
\* set but both; a multiRemove that resolves removes both.
ClearAllData(fault, removed) ==
  LET cancelled == fault # "cancelAllScheduledNotificationsAsync"
      gone == IF ~ReachesRemove(fault) THEN {}
              ELSE IF fault = "multiRemove" THEN removed
              ELSE {"@medications", "@dose_history"}
  IN /\ callsLeft > 0
     /\ callsLeft' = callsLeft - 1
     /\ scheduledNotifications' =
          IF cancelled THEN <<>> ELSE scheduledNotifications
     /\ medications' = IF "@medications" \in gone THEN <<>> ELSE medications
     /\ doseHistory' = IF "@dose_history" \in gone THEN <<>> ELSE doseHistory
     /\ last' = [op |-> "clearAllData", at |-> now,
                 call |-> NoCall, existed |-> FALSE, wasTaken |-> FALSE,
                 supplyBefore |-> -1, medsBefore |-> medications,
                 lenBefore |-> Len(doseHistory), idBefore |-> nextId,
                 ledgerWrites |-> 0, medWrites |-> 0,
                 iterations |-> <<>>,
                 fault |-> fault, raised |-> fault # "none"]
     /\ UNCHANGED <<authScreen, now, nextId, lastDay, charges, partial, registered, probe,
                    procs, ledgerVersion>>

ClearAllDataAny ==
  \E fault \in ClearFaults :
    \E removed \in (SUBSET {"@medications", "@dose_history"})
                     \ {{"@medications", "@dose_history"}} :
      /\ fault # "multiRemove" => removed = {}
      /\ ClearAllData(fault, removed)

NextClear == Tick \/ RecordDose \/ syncMissedDoses \/ ClearAllDataAny

SpecClear == InitClear /\ [][NextClear]_vars

(***************************************************************************)
(* app/auth.tsx: AuthScreen.  checkBiometrics runs once when the screen is *)
(* mounted; authenticate runs when the control is pressed.  Each runs from *)
(* one await to the next, and every awaited LocalAuthentication call may   *)
(* reject.                                                                 *)
(***************************************************************************)
\* what the device answers to hasHardwareAsync and isEnrolledAsync
Devices == [hardware : BOOLEAN, enrolled : BOOLEAN]

\* the results of LocalAuthentication.authenticateAsync: it resolves with
\* success true or false, or it rejects
AuthResults == {"success", "failure", "rejects"}

\* mutant: authenticate resets isAuthenticating when it has settled
SettledIsAuthenticatingReset(isAuthenticating) == FALSE

\* the value of isAuthenticating when authenticate has settled: the function
\* has no setIsAuthenticating(false), on no path
SettledIsAuthenticating(isAuthenticating) == isAuthenticating

\* <TouchableOpacity onPress={authenticate} disabled={isAuthenticating}>
ControlEnabled == ~authScreen.isAuthenticating

InitAuth ==
  /\ lastDay = 0
  /\ callsLeft = 0
  /\ medications = <<>>
  /\ doseHistory = <<>>
  /\ now = 9
  /\ nextId = 1
  /\ charges = EmptyBag
  /\ last = InitLast
  /\ partial = {}
  /\ registered = {}
  /\ procs = [p \in Processes |-> Idle]
  /\ ledgerVersion = 0
  /\ scheduledNotifications = <<>>
  /\ probe = NoProbe
  /\ \E device \in Devices :
       authScreen =
         [screen |-> "auth", device |-> device,
          hasBiometrics |-> FALSE, isAuthenticating |-> FALSE,
          error |-> "null",
          check |-> [pc |-> "hasHardwareAsync", hasHardware |-> FALSE],
          call |-> [pc |-> "idle", hasHardware |-> FALSE,
                    isEnrolled |-> FALSE, outcome |-> "none"]]

AuthFrame ==
  UNCHANGED <<medications, doseHistory, now, nextId, lastDay, callsLeft,
              charges, last, partial, registered, procs, ledgerVersion,
              scheduledNotifications, probe>>

\* checkBiometrics: await LocalAuthentication.hasHardwareAsync(), line 28
CheckHasHardware ==
  /\ authScreen.check.pc = "hasHardwareAsync"
  /\ \E rejects \in BOOLEAN :
       authScreen' =
         IF rejects
         THEN [authScreen EXCEPT !.check.pc = "threw"]
         ELSE [authScreen EXCEPT
                 !.check.pc = "isEnrolledAsync",
                 !.check.hasHardware = authScreen.device.hardware]
  /\ AuthFrame

\* checkBiometrics: await isEnrolledAsync() and setHasBiometrics, lines 29-30
CheckIsEnrolled ==
  /\ authScreen.check.pc = "isEnrolledAsync"
  /\ \E rejects \in BOOLEAN :
       authScreen' =
         IF rejects
         THEN [authScreen EXCEPT !.check.pc = "threw"]
         ELSE [authScreen EXCEPT
                 !.check.pc = "done",
                 !.hasBiometrics = authScreen.check.hasHardware
                                     /\ authScreen.device.enrolled]
  /\ AuthFrame

\* the control is pressed: authenticate up to its first await, lines 35-38
Press ==
  /\ authScreen.screen = "auth"
  /\ ControlEnabled
  /\ authScreen.call.pc \in {"idle", "done"}
  /\ authScreen' = [authScreen EXCEPT
       !.isAuthenticating = TRUE,
       !.error = "null",
       !.call = [pc |-> "hasHardwareAsync", hasHardware |-> FALSE,
                 isEnrolled |-> FALSE, outcome |-> "none"]]
  /\ AuthFrame

\* authenticate has settled with the outcome: the function returns, or its
\* empty catch at line 59 has swallowed the rejection
Settled(outcome) ==
  [authScreen EXCEPT
     !.call.pc = "done",
     !.call.outcome = outcome,
     !.isAuthenticating = SettledIsAuthenticating(authScreen.isAuthenticating)]

\* authenticate: await hasHardwareAsync(), line 38
AuthHasHardware ==
  /\ authScreen.call.pc = "hasHardwareAsync"
  /\ \E rejects \in BOOLEAN :
       authScreen' =
         IF rejects THEN Settled("threw")
         ELSE [authScreen EXCEPT
                 !.call.pc = "isEnrolledAsync",
                 !.call.hasHardware = authScreen.device.hardware]
  /\ AuthFrame

\* authenticate: await isEnrolledAsync(), line 39
AuthIsEnrolled ==
  /\ authScreen.call.pc = "isEnrolledAsync"
  /\ \E rejects \in BOOLEAN :
       authScreen' =
         IF rejects THEN Settled("threw")
         ELSE [authScreen EXCEPT
                 !.call.pc = "supportedAuthenticationTypesAsync",
                 !.call.isEnrolled = authScreen.device.enrolled]
  /\ AuthFrame

\* authenticate: await supportedAuthenticationTypesAsync(), lines 40-41
AuthSupportedTypes ==
  /\ authScreen.call.pc = "supportedAuthenticationTypesAsync"
  /\ \E rejects \in BOOLEAN :
       authScreen' =
         IF rejects THEN Settled("threw")
         ELSE [authScreen EXCEPT !.call.pc = "authenticateAsync"]
  /\ AuthFrame

\* authenticate: await authenticateAsync(...) and what follows, lines 44-59
AuthenticateAsync ==
  /\ authScreen.call.pc = "authenticateAsync"
  /\ \E result \in AuthResults :
       authScreen' =
         CASE result = "success" ->
                [Settled("success") EXCEPT !.screen = "home"]
           [] result = "failure" ->
                [Settled("failed") EXCEPT !.error = "Authentication failed"]
           [] OTHER -> Settled("threw")
  /\ AuthFrame

NextAuth ==
  \/ CheckHasHardware
  \/ CheckIsEnrolled
  \/ Press
  \/ AuthHasHardware
  \/ AuthIsEnrolled
  \/ AuthSupportedTypes
  \/ AuthenticateAsync

\* every continuation that is ready runs, and the user presses the control
\* whenever it stays enabled
SpecAuth == InitAuth /\ [][NextAuth]_vars /\ WF_vars(NextAuth)

(***************************************************************************)
(* Properties                                                              *)
(***************************************************************************)
\* natural key of a ledger entry
KeyOf(e) == <<e.medicationId, e.scheduledTime, ToDateString(GetTime(e.timestamp))>>

\* the entries the last call appended
Appended == {i \in 1..Len(doseHistory) : doseHistory[i].id >= last.idBefore}

\* the registered medication with this id
Registered(medicationId) == medications[FindMedication(medications, medicationId)]

StartDay(medication) == ToDateString(GetTime(medication.startDate))

Ongoing(medication) ==
  IsNaN(ParseInt(medication.duration)) \/ ParseInt(medication.duration).val = -1

\* the last day of the active window as of clock reading t
WindowEnd(medication, t) ==
  IF Ongoing(medication) THEN ToDateString(t)
  ELSE StartDay(medication) + ParseInt(medication.duration).val - 1

\* C1: the ledger holds at most one entry per (medicationId, scheduledTime,
\* calendar day of the timestamp), after any sequence of recordDose and
\* syncMissedDoses calls
C1_UniqueNaturalKey ==
  \A i, j \in 1..Len(doseHistory) :
    i # j => KeyOf(doseHistory[i]) # KeyOf(doseHistory[j])

\* a sync has written the ledger while it held a dose recorded as taken for
\* one of the scheduled times
C1_Witness ==
  /\ last.op = "syncMissedDoses"
  /\ last.ledgerWrites = 1
  /\ \E i \in 1..Len(doseHistory) :
       /\ doseHistory[i].taken
       /\ doseHistory[i].scheduledTime = "09:00"
       /\ doseHistory[i].id < last.idBefore

\* C2: currentSupply decreases by at most 1 in total on account of one
\* natural key, whatever recordDose calls are addressed to it
C2_DecrementedOncePerKey ==
  \A k \in BagToSet(charges) : CopiesIn(k, charges) <= 1

C4_SupplyFloor ==
  /\ \A i \in 1..Len(medications) : medications[i].currentSupply >= 0
  /\ (last.op = "recordDose" /\ last.call.taken /\ last.supplyBefore = 0) =>
       /\ SupplyOf(medications, last.call.medicationId) = 0
       /\ medications = last.medsBefore
       /\ last.medWrites = 0

\* a first taken recording of a key while the supply is 0
C4_Witness ==
  /\ last.op = "recordDose"
  /\ last.call.taken
  /\ ~last.existed
  /\ last.supplyBefore = 0
  /\ SupplyOf(medications, last.call.medicationId) = 0

\* C5: after syncMissedDoses at instant now, every scheduled time of every
\* day of a medication's active window whose instant is <= now has a ledger
\* entry with that natural key; with times 09:00 and 21:00, a start 3 days
\* ago, a 7-day duration, an empty ledger and the clock at noon, the pass
\* inserts exactly 7 entries
C5_SyncCoversElapsedDoses ==
  last.op = "syncMissedDoses" =>
    /\ \A i \in 1..Len(medications) :
         LET medication == medications[i]
         IN \A d \in StartDay(medication)..WindowEnd(medication, last.at) :
              \A k \in 1..Len(medication.times) :
                d * HoursPerDay + ClockHour(medication.times[k]).val <= last.at =>
                  \E j \in 1..Len(doseHistory) :
                    KeyOf(doseHistory[j]) = <<medication.id, medication.times[k], d>>
    /\ ( /\ last.lenBefore = 0
         /\ last.at % HoursPerDay = 12
         /\ \E i \in 1..Len(medications) :
              /\ medications[i].id = "A"
              /\ medications[i].times = <<"09:00", "21:00">>
              /\ medications[i].duration = "7 days"
              /\ StartDay(medications[i]) = ToDateString(last.at) - 3 ) =>
         Cardinality({j \in 1..Len(doseHistory) :
                        doseHistory[j].medicationId = "A"}) = 7

\* the first sync of the 7-day twice-daily course, run at noon of its 4th day
C5_Witness ==
  /\ last.op = "syncMissedDoses"
  /\ last.lenBefore = 0
  /\ last.at = 3 * HoursPerDay + 12
  /\ medications[1].times = <<"09:00", "21:00">>
  /\ medications[1].duration = "7 days"
  /\ StartDay(medications[1]) = 0
  /\ Len(doseHistory) = 7

\* C6: syncMissedDoses appends no entry whose scheduled instant is later than
\* now, nor one for a day before the start day or after start day +
\* durationDays - 1
C6_SyncStaysInWindow ==
  last.op = "syncMissedDoses" =>
    \A i \in Appended :
      LET e == doseHistory[i]
          medication == Registered(e.medicationId)
          day == ToDateString(GetTime(e.timestamp))
      IN /\ GetTime(e.timestamp) <= last.at
         /\ day >= StartDay(medication)
         /\ ~Ongoing(medication) =>
              day <= StartDay(medication) + ParseInt(medication.duration).val - 1

\* the first sync of the 2-day course, run after its window has closed
C6_Witness ==
  /\ last.op = "syncMissedDoses"
  /\ last.idBefore = 1
  /\ last.ledgerWrites = 1
  /\ medications[1].duration = "2 days"
  /\ ToDateString(last.at) >= StartDay(medications[1]) + 2

C8_AsNeededNeverSynced ==
  last.op = "syncMissedDoses" =>
    \A i \in Appended :
      Len(Registered(doseHistory[i].medicationId).times) > 0

\* a sync that wrote while an as-needed medication was inside its window
C8_Witness ==
  /\ last.op = "syncMissedDoses"
  /\ last.ledgerWrites = 1
  /\ \E i \in 1..Len(medications) :
       /\ medications[i].times = <<>>
       /\ StartOf(medications[i]) <= last.at

\* C9: the persisted ledger is sorted by timestamp ascending after every
\* recordDose and syncMissedDoses call
C9_LedgerSorted ==
  \A i \in 1..(Len(doseHistory) - 1) :
    GetTime(doseHistory[i].timestamp) <= GetTime(doseHistory[i + 1].timestamp)

\* recordDose has inserted an entry whose timestamp is earlier than that of an
\* entry already in the ledger
C9_Witness ==
  /\ last.op = "recordDose"
  /\ ~last.existed
  /\ \E i, j \in 1..Len(doseHistory) :
       /\ doseHistory[i].id = last.idBefore
       /\ doseHistory[j].id < last.idBefore
       /\ GetTime(doseHistory[i].timestamp) < GetTime(doseHistory[j].timestamp)

\* C10: recordDose with taken = false changes no medication's currentSupply,
\* also when it flips a taken entry back to not taken
C10_NotTakenLeavesSupply ==
  (last.op = "recordDose" /\ ~last.call.taken) => medications = last.medsBefore

\* a taken entry whose recording had decremented the supply is flipped back
C10_Witness ==
  /\ last.op = "recordDose"
  /\ ~last.call.taken
  /\ last.wasTaken
  /\ CopiesIn(<<last.call.medicationId, last.call.scheduledTime,
                ToDateString(GetTime(last.call.timestamp))>>, charges) >= 1
  /\ SupplyOf(medications, last.call.medicationId) = last.supplyBefore

\* C11: every entry syncMissedDoses appends has taken = false, one of the
\* medication's scheduled times as scheduledTime, and the scheduled instant
\* (a day of the course at that clock time, not after the pass) as timestamp
C11_MissedEntryShape ==
  last.op = "syncMissedDoses" =>
    \A i \in Appended :
      LET e == doseHistory[i]
          medication == Registered(e.medicationId)
      IN /\ ~e.taken
         /\ \E k \in 1..Len(medication.times) : medication.times[k] = e.scheduledTime
         /\ ~IsNaN(ClockHour(e.scheduledTime))
         /\ GetTime(e.timestamp)
              = SetHours(GetTime(e.timestamp), ClockHour(e.scheduledTime).val)
         /\ GetTime(e.timestamp) <= last.at

\* a sync that ran at noon of a later day and appended entries, none of them
\* stamped with the instant of the pass
C11_Witness ==
  /\ last.op = "syncMissedDoses"
  /\ last.at = SetHours(last.at, 12)
  /\ ToDateString(last.at) > 0
  /\ Cardinality(Appended) > 1
  /\ \A i \in Appended : GetTime(doseHistory[i].timestamp) # last.at

\* C12: when the dose-history collection cannot be read, recordDose and
\* syncMissedDoses fail towards the caller and leave the persisted ledger as
\* it was
C12_ReadFailureAborts ==
  [][(/\ callsLeft' # callsLeft
      /\ last'.op \in {"recordDose", "syncMissedDoses"}
      /\ last'.fault = "getDoseHistory") =>
       (last'.raised /\ doseHistory' = doseHistory)]_vars

\* C13: when the ledger write of recordDose fails, the caller gets the
\* failure, the persisted ledger keeps its content and no currentSupply changes
C13_LedgerWriteFailurePropagates ==
  [][(/\ callsLeft' # callsLeft
      /\ last'.op = "recordDose"
      /\ last'.fault = "setDoseHistory") =>
       (last'.raised /\ doseHistory' = doseHistory
                     /\ medications' = medications)]_vars

\* the ledger write failed in a first taken recording for a medication with
\* supply left, while the ledger already held an entry
C13_Witness ==
  /\ last.op = "recordDose"
  /\ last.fault = "setDoseHistory"
  /\ last.raised
  /\ last.call.taken
  /\ ~last.existed
  /\ last.supplyBefore > 0
  /\ Len(doseHistory) > 0

\* C14: a recordDose call that completes without error writes the dose-history
\* collection exactly once and the medications collection at most once, the
\* latter only when the trigger fired (a taken recording of a key not yet
\* taken), the medication exists and its currentSupply was > 0
C14_WritesPerCall ==
  (last.op = "recordDose" /\ ~last.raised) =>
    /\ last.ledgerWrites = 1
    /\ last.medWrites <= 1
    /\ last.medWrites = 1 =>
         /\ last.call.taken
         /\ ~last.wasTaken
         /\ last.call.medicationId \in Ids(last.medsBefore)
         /\ last.supplyBefore > 0

\* a call that wrote both collections, and the ledger already held an entry
C14_Witness ==
  /\ last.op = "recordDose"
  /\ ~last.raised
  /\ last.ledgerWrites = 1
  /\ last.medWrites = 1
  /\ last.lenBefore > 0

\* both calls have completed, p's ledger write landed between q's read of the
\* ledger and q's write, and q's write is the latest
Raced(p, q) ==
  /\ p # q
  /\ procs[p].pc = "done"
  /\ procs[q].pc = "done"
  /\ procs[p].wrote > 0
  /\ procs[q].loaded < procs[p].wrote
  /\ procs[p].wrote < procs[q].wrote
  /\ procs[q].wrote = ledgerVersion

\* C15: when two recordDose / syncMissedDoses calls overlap, the last write
\* wins: if one call's ledger write lands between the other's read and write,
\* both complete and every entry the first one pushed is absent from the
\* persisted ledger
C15_LastWriteWins ==
  \A p, q \in Processes :
    Raced(p, q) =>
      \A e \in procs[p].pushed :
        \A i \in 1..Len(doseHistory) : doseHistory[i].id # e.id

\* a recordDose call pushed a taken entry, a sync pass that had read the ledger
\* before wrote after it, and the taken entry is not in the persisted ledger
C15_Witness ==
  \E p, q \in Processes :
    /\ Raced(p, q)
    /\ procs[p].op = "recordDose"
    /\ procs[q].op = "syncMissedDoses"
    /\ \E e \in procs[p].pushed :
         /\ e.taken
         /\ \A i \in 1..Len(doseHistory) : doseHistory[i].id # e.id

\* p and q raced and each pushed an entry of the same natural key
RacedOnKey(p, q) ==
  /\ Raced(p, q)
  /\ \E e \in procs[p].pushed, f \in procs[q].pushed : KeyOf(e) = KeyOf(f)

\* C16, as claimed: after two overlapping calls have each pushed an entry of
\* the same natural key, the persisted ledger holds two entries of that key
C16_RaceDuplicatesKey ==
  \A p, q \in Processes :
    RacedOnKey(p, q) =>
      \E i, j \in 1..Len(doseHistory) :
        i # j /\ KeyOf(doseHistory[i]) = KeyOf(doseHistory[j])

\* C16, amended: in every interleaving of overlapping calls the persisted
\* ledger, and the in-memory history of every call, holds at most one entry
\* per natural key
C16_RaceKeepsKeysUnique ==
  /\ \A i, j \in 1..Len(doseHistory) :
       i # j => KeyOf(doseHistory[i]) # KeyOf(doseHistory[j])
  /\ \A p \in Processes :
       procs[p].pc # "idle" =>
         \A i, j \in 1..Len(procs[p].history) :
           i # j => KeyOf(procs[p].history[i]) # KeyOf(procs[p].history[j])

\* a recordDose call and a sync pass raced on the key (A, 09:00, day 0)
C16_Witness ==
  \E p, q \in Processes :
    /\ RacedOnKey(p, q)
    /\ procs[p].op # procs[q].op
    /\ Len(doseHistory) > 0

\* C17: the medicationId of every ledger entry is the id of a medication the
\* registry holds or has held; recordDose creates no entry for another id
C17_EntriesReferenceRegistered ==
  \A i \in 1..Len(doseHistory) : doseHistory[i].medicationId \in registered

\* C18: recordDose for an id the registry does not hold leaves the medications
\* as they are, writes them not at all, and raises nothing unless its ledger
\* write fails; updateMedication for such an id writes nothing and raises
\* nothing
C18_AbsentIdIsSilent ==
  (/\ last.op \in {"recordDose", "updateMedication"}
   /\ last.call.medicationId \notin Ids(last.medsBefore)) =>
     /\ medications = last.medsBefore
     /\ last.medWrites = 0
     /\ last.fault # "setDoseHistory" => ~last.raised

\* updateMedication was called for the id Z, which the registry never held,
\* after recordDose had recorded a taken dose for Z
C18_Witness ==
  /\ last.op = "updateMedication"
  /\ last.call.medicationId = "Z"
  /\ last.fault = "none"
  /\ \E i \in 1..Len(doseHistory) :
       doseHistory[i].medicationId = "Z" /\ doseHistory[i].taken

\* C19: a time string that is not a clock time is skipped on its own: the
\* pass completes without error, appends no entry for that string, and leaves
\* every elapsed dose of every well-formed time with a ledger entry
C19_MalformedTimeSkipped ==
  (last.op = "syncMissedDoses" /\ last.fault = "none") =>
    /\ ~last.raised
    /\ \A i \in Appended : ~IsNaN(ClockHour(doseHistory[i].scheduledTime))
    /\ \A i \in 1..Len(medications) :
         LET medication == medications[i]
         IN \A d \in StartDay(medication)..WindowEnd(medication, last.at) :
              \A k \in 1..Len(medication.times) :
                (/\ ~IsNaN(ClockHour(medication.times[k]))
                 /\ d * HoursPerDay + ClockHour(medication.times[k]).val
                      <= last.at) =>
                  \E j \in 1..Len(doseHistory) :
                    KeyOf(doseHistory[j]) = <<medication.id, medication.times[k], d>>

\* the dose of key k is in the ledger as taken
TakenInLedger(k) ==
  \E i \in 1..Len(doseHistory) :
    KeyOf(doseHistory[i]) = k /\ doseHistory[i].taken

\* C20: once a taken recording of a key has written the ledger and failed to
\* write the medications, no later syncMissedDoses pass and no later taken
\* recording of that key changes the currentSupply of the medication
C20_PartialFailureNotRepaired ==
  [][\A k \in partial :
       (/\ TakenInLedger(k)
        /\ \/ last'.op = "syncMissedDoses"
           \/ /\ callsLeft' # callsLeft
              /\ last'.op = "recordDose"
              /\ last'.call.taken
              /\ KeyOf(last'.call) = k) =>
         SupplyOf(medications', k[1]) = SupplyOf(medications, k[1])]_vars

\* C21: isMedicationActiveOnDate is false before the start day, true from the
\* start day to the day start + duration - 1, false afterwards, and true from
\* the start day on when the duration is ongoing; only the calendar days of
\* date and startDate count
C21_ActiveWindow ==
  probe.fn = "isMedicationActiveOnDate" =>
    LET start == ToDateString(GetTime(probe.medication.startDate))
        day == ToDateString(probe.date)
    IN probe.result <=>
         /\ day >= start
         /\ \/ Ongoing(probe.medication)
            \/ day <= start + ParseInt(probe.medication.duration).val - 1

\* the call for the last day of a 2-day course that started at noon, with a
\* date late in the evening
C21_Witness ==
  /\ probe.fn = "isMedicationActiveOnDate"
  /\ probe.medication.duration = "2 days"
  /\ probe.medication.startDate = <<1, 12>>
  /\ probe.date = 2 * HoursPerDay + 21
  /\ probe.result

\* C22: isMedicationDue is false for a date on a calendar day after today and
\* true for a date on a calendar day before today, whatever the medication's
\* times and start and whatever the times of day
C22_DueByDay ==
  probe.fn = "isMedicationDue" =>
    /\ ToDateString(probe.date) > ToDateString(probe.at) => ~probe.result
    /\ ToDateString(probe.date) < ToDateString(probe.at) => probe.result

\* the call for tomorrow's date and an as-needed medication
C22_Witness ==
  /\ probe.fn = "isMedicationDue"
  /\ probe.medication.times = <<>>
  /\ ToDateString(probe.date) = ToDateString(probe.at) + 1
  /\ ~probe.result

\* C23: for a date of today, isMedicationDue is true iff the medication has no
\* times or one of its clock times is <= the clock reading; with the single
\* time 09:00 it is false before 09:00 and true from 09:00 on
C23_DueToday ==
  (probe.fn = "isMedicationDue"
     /\ ToDateString(probe.date) = ToDateString(probe.at)) =>
    /\ probe.result <=>
         \/ Len(probe.medication.times) = 0
         \/ \E k \in 1..Len(probe.medication.times) :
              /\ ~IsNaN(ClockHour(probe.medication.times[k]))
              /\ ClockHour(probe.medication.times[k]).val
                   <= probe.at % HoursPerDay
    /\ probe.medication.times = <<"09:00">> =>
         (probe.result <=> probe.at % HoursPerDay >= 9)

\* the call at 09:00 sharp for today's date and the single time 09:00
C23_Witness ==
  /\ probe.fn = "isMedicationDue"
  /\ probe.medication.times = <<"09:00">>
  /\ ToDateString(probe.date) = ToDateString(probe.at)
  /\ probe.at % HoursPerDay = 9
  /\ probe.result

\* C24: scheduleRefillReminder issues an immediate alert exactly when
\* refillReminder is enabled and currentSupply <= refillAt, and none when the
\* switch is off or the supply is above the threshold
C24_RefillAlertDerived ==
  probe.fn = "scheduleRefillReminder" =>
    /\ Len(probe.requests) <= 1
    /\ Len(probe.requests) = 1 <=>
         /\ probe.medication.refillReminder
         /\ probe.medication.currentSupply <= probe.medication.refillAt
    /\ \A k \in 1..Len(probe.requests) :
         /\ probe.requests[k].trigger = "null"
         /\ probe.requests[k].type = "refill"
         /\ probe.requests[k].medicationId = probe.medication.id
    /\ scheduledNotifications = probe.before

\* the call for a medication whose supply equals the threshold, with the
\* switch on
C24_Witness ==
  /\ probe.fn = "scheduleRefillReminder"
  /\ probe.medication.refillReminder
  /\ probe.medication.currentSupply = probe.medication.refillAt
  /\ Len(probe.requests) = 1
  /\ probe.failAt = 0

\* the notifications of list from position from on
Added(list, from) == SubSeq(list, from + 1, Len(list))

\* C27: scheduleMedicationReminder schedules one recurring alert per element
\* of med.times, each tagged with med.id, when reminderEnabled is true and no
\* scheduling call fails, and schedules nothing when reminderEnabled is false
C27_OneAlertPerTime ==
  probe.fn = "scheduleMedicationReminder" =>
    LET added == Added(scheduledNotifications, Len(probe.before))
    IN /\ SubSeq(scheduledNotifications, 1, Len(probe.before)) = probe.before
       /\ ~probe.medication.reminderEnabled =>
            added = <<>> /\ probe.requests = <<>>
       /\ (probe.medication.reminderEnabled /\ probe.failAt = 0) =>
            /\ Len(added) = Len(probe.medication.times)
            /\ \A k \in 1..Len(added) :
                 /\ added[k].medicationId = probe.medication.id
                 /\ added[k].repeats
                 /\ added[k].hour = ClockHour(probe.medication.times[k]).val
                 /\ \A i \in 1..Len(scheduledNotifications) :
                      scheduledNotifications[i].identifier = added[k].identifier
                        => i = Len(probe.before) + k

\* the enabled twice-daily medication was scheduled without a failure after
\* the reminders of the other medication had been scheduled
C27_Witness ==
  /\ probe.fn = "scheduleMedicationReminder"
  /\ probe.medication.reminderEnabled
  /\ probe.failAt = 0
  /\ Len(probe.medication.times) = 2
  /\ Tagged(probe.before, "B") # {}
  /\ Len(scheduledNotifications) = Len(probe.before) + 2

C26_DayLoopBounded ==
  last.op = "syncMissedDoses" =>
    /\ Len(last.iterations) = Len(last.medsBefore)
    /\ \A i \in 1..Len(last.medsBefore) :
         LET start == StartDay(last.medsBefore[i])
             today == ToDateString(last.at)
         IN IF start > today
            THEN last.iterations[i] = 0
            ELSE last.iterations[i] <= today - start + 1

\* a pass on day MaxDay over an ongoing course started on day 0 and a
\* medication that starts the day after
C26_Witness ==
  /\ last.op = "syncMissedDoses"
  /\ ToDateString(last.at) = MaxDay
  /\ Ongoing(last.medsBefore[1])
  /\ StartDay(last.medsBefore[1]) = 0
  /\ StartDay(last.medsBefore[2]) > MaxDay
  /\ last.iterations = <<MaxDay + 1, 0>>

\* the positions of the as-needed entries (empty scheduledTime) of a
\* medication on a calendar day
AsNeededOn(medicationId, day) ==
  {i \in 1..Len(doseHistory) :
     /\ doseHistory[i].medicationId = medicationId
     /\ doseHistory[i].scheduledTime = ""
     /\ ToDateString(GetTime(doseHistory[i].timestamp)) = day}

\* C25: however often recordDose is called with an empty scheduledTime for
\* one medication with timestamps on one calendar day, the ledger holds one
\* entry for that medication and day, and it carries the taken flag and the
\* timestamp of the latest of these calls
C25_OneAsNeededEntryPerDay ==
  /\ \A medicationId \in RecordIds, day \in 0..MaxDay :
       Cardinality(AsNeededOn(medicationId, day)) <= 1
  /\ (last.op = "recordDose" /\ last.call.scheduledTime = "") =>
       LET hits == AsNeededOn(last.call.medicationId,
                              ToDateString(GetTime(last.call.timestamp)))
       IN /\ Cardinality(hits) = 1
          /\ \A i \in hits :
               /\ doseHistory[i].taken = last.call.taken
               /\ doseHistory[i].timestamp = last.call.timestamp

\* the third as-needed recording of the day, at noon, which reverts an entry
\* recorded as taken
C25_Witness ==
  /\ last.op = "recordDose"
  /\ last.call.scheduledTime = ""
  /\ last.existed
  /\ last.wasTaken
  /\ ~last.call.taken
  /\ last.call.timestamp = <<0, 12>>
  /\ callsLeft = 0
  /\ Cardinality(AsNeededOn("A", 0)) = 1

C30_SupplyOnlyFrame ==
  [][(callsLeft' # callsLeft /\ last'.op = "recordDose") =>
       \/ medications' = medications
       \/ \E i \in 1..Len(medications) :
            /\ medications[i].id = last'.call.medicationId
            /\ medications' =
                 [medications EXCEPT ![i].currentSupply = @ - 1]]_vars

\* a taken recording for A has taken one unit from A in a registry of two
\* medications, and B is as it was
C30_Witness ==
  /\ last.op = "recordDose"
  /\ last.call.medicationId = "A"
  /\ last.medWrites = 1
  /\ ~last.raised
  /\ Len(medications) = 2
  /\ medications[2].id = "B"
  /\ medications[2] = last.medsBefore[2]
  /\ medications[1] = [last.medsBefore[1] EXCEPT
                         !.currentSupply = last.supplyBefore - 1]
  /\ last.supplyBefore = MaxSupply

\* both calls of the run so far are taken recordings of one key by the two
\* processes, each of which found no entry of the key and pushed one: the
\* calls overlapped on a key without a prior entry, and both have finished
OverlappedOnKey ==
  /\ callsLeft = RaceRun.calls - 2
  /\ \A p \in Processes :
       /\ procs[p].pc = "done"
       /\ procs[p].op = "recordDose"
       /\ procs[p].call.taken
       /\ procs[p].pushed # {}
  /\ KeyOf(procs[1].call) = KeyOf(procs[2].call)

\* C31: two overlapping recordDose(id, t, true, T) calls of one key without a
\* prior entry, on a medication with currentSupply >= 2, take at most 1 from
\* currentSupply in every interleaving
C31_OverlapDecrementsOnce ==
  OverlappedOnKey =>
    SupplyOf(medications, procs[1].call.medicationId) >= MaxSupply - 1

\* C32: whatever the interleaving of the store reads and writes of
\* overlapping recordDose calls, the persisted currentSupply of every
\* medication is >= 0
C32_RaceSupplyFloor ==
  \A i \in 1..Len(medications) : medications[i].currentSupply >= 0

\* after one unit was taken, two overlapping taken recordings both read a
\* supply of 1, both passed the guard and both wrote 0
C32_Witness ==
  /\ callsLeft = 0
  /\ \A p \in Processes :
       /\ procs[p].pc = "done"
       /\ procs[p].op = "recordDose"
       /\ procs[p].decrementSupply
       /\ procs[p].medication.id = "A"
       /\ procs[p].medication.currentSupply = 0
  /\ SupplyOf(medications, "A") = 0

NoonOf(d) == d * HoursPerDay + 12

\* C34: the days syncMissedDoses works on are the days on which
\* isMedicationActiveOnDate holds.  After a pass, every entry it appended
\* lies on a day on which its medication is active, and for a medication
\* with scheduled times every dose of an active day up to today whose
\* scheduled instant has passed has an entry, for numbered and for ongoing
\* durations
C34_SyncWindowIsActiveWindow ==
  last.op = "syncMissedDoses" =>
    /\ \A i \in Appended :
         isMedicationActiveOnDate(
           Registered(doseHistory[i].medicationId),
           NoonOf(ToDateString(GetTime(doseHistory[i].timestamp))))
    /\ \A m \in 1..Len(medications), d \in 0..MaxDay :
         \A k \in 1..Len(medications[m].times) :
           LET medication == medications[m]
               time == medication.times[k]
               scheduled == SetHours(d * HoursPerDay, ClockHour(time).val)
           IN (/\ isMedicationActiveOnDate(medication, NoonOf(d))
               /\ scheduled <= last.at)
              => \E i \in 1..Len(doseHistory) :
                   KeyOf(doseHistory[i]) = <<medication.id, time, d>>

\* a pass on day MaxDay over the 2-day course started on day 0: the course
\* is active on day 1 and not on day 2, and the pass appended the doses of
\* day 1 and none of day 2
C34_Witness ==
  /\ last.op = "syncMissedDoses"
  /\ ToDateString(last.at) = MaxDay
  /\ medications[1].duration = "2 days"
  /\ isMedicationActiveOnDate(medications[1], NoonOf(1))
  /\ ~isMedicationActiveOnDate(medications[1], NoonOf(2))
  /\ \E i \in Appended : KeyOf(doseHistory[i]) = <<"A", "21:00", 1>>
  /\ \A i \in 1..Len(doseHistory) :
       doseHistory[i].medicationId = "A"
         => ToDateString(GetTime(doseHistory[i].timestamp)) <= 1

\* the ids of the medications that were registered and are no longer
Deleted == registered \ Ids(medications)

C36_DeleteNotUndone ==
  \A p, q \in Processes :
    ( /\ procs[p].pc = "done"
      /\ procs[p].op = "deleteMedication"
      /\ procs[q].pc = "done"
      /\ procs[q].op = "recordDose"
      /\ procs[q].call.medicationId = procs[p].call.medicationId )
    => procs[p].call.medicationId \notin Ids(medications)

\* the recurring alerts of the list that are tagged with the medication id
Recurring(list, medicationId) ==
  {i \in Tagged(list, medicationId) : list[i].repeats}

\* C38: after an updateMedicationReminders(med) call in which no scheduler
\* call failed, whatever was scheduled before it, the recurring alerts
\* tagged with med.id number |med.times| when reminderEnabled is true and 0
\* when it is false
C38_UpdateDoesNotAccumulate ==
  (probe.fn = "updateMedicationReminders" /\ probe.failAt = 0) =>
    Cardinality(Recurring(scheduledNotifications, probe.medication.id))
      = IF probe.medication.reminderEnabled
        THEN Len(probe.medication.times)
        ELSE 0

\* the third call of a run for the twice-daily medication with its reminders
\* enabled: its two alerts were scheduled before the call and two are after
C38_Witness ==
  /\ probe.fn = "updateMedicationReminders"
  /\ probe.failAt = 0
  /\ callsLeft = 0
  /\ probe.medication.id = "A"
  /\ probe.medication.reminderEnabled
  /\ Cardinality(Recurring(probe.before, "A")) = 2
  /\ Cardinality(Recurring(scheduledNotifications, "A")) = 2

\* C37: a clearAllData call that resolves leaves the medications and the
\* dose history empty and no notification scheduled, and a syncMissedDoses
\* pass that follows it inserts nothing; a call whose cancellation of the
\* notifications rejects raises the error and removes neither collection
C37_ClearAllData ==
  [][/\ (last'.op = "clearAllData" /\ ~last'.raised) =>
          /\ medications' = <<>>
          /\ doseHistory' = <<>>
          /\ scheduledNotifications' = <<>>
     /\ ( /\ last'.op = "clearAllData"
          /\ last'.fault = "cancelAllScheduledNotificationsAsync" ) =>
          /\ last'.raised
          /\ medications' = medications
          /\ doseHistory' = doseHistory
     /\ ( /\ last.op = "clearAllData"
          /\ ~last.raised
          /\ last'.op = "syncMissedDoses" ) =>
          /\ doseHistory' = <<>>
          /\ last'.ledgerWrites = 0]_vars

\* the pass on day 1 that follows a clearAllData which removed a registry of
\* two medications, a ledger with entries and the scheduled reminders: it
\* finds no medication and leaves the ledger empty
C37_Witness ==
  /\ last.op = "syncMissedDoses"
  /\ ToDateString(last.at) = 1
  /\ last.medsBefore = <<>>
  /\ last.lenBefore = 0
  /\ last.idBefore > 1
  /\ last.ledgerWrites = 0
  /\ medications = <<>>
  /\ doseHistory = <<>>
  /\ scheduledNotifications = <<>>

\* C39: after an authentication attempt that failed or threw, the
\* authenticate control, disabled while isAuthenticating is true, is
\* eventually enabled again
C39_RetryAfterFailure ==
  ( /\ authScreen.screen = "auth"
    /\ authScreen.call.pc = "done"
    /\ authScreen.call.outcome \in {"failed", "threw"} )
  ~> ControlEnabled

====
